---- MODULE Spec2Model ----
(***************************************************************************)
(* Model of src/analysis.py (green-optimizer): the unused-image            *)
(* correlator _detect_unused_images, the coverage session manager          *)
(* _start_cdp_coverage / _stop_and_get_dead_files, and the orchestrator    *)
(* run_analysis.                                                           *)
(*                                                                         *)
(* Strings are sequences of one-character strings, ordered by code point   *)
(* as Python orders str.  Python's None is the value None for strings and  *)
(* NoneInt for integers.                                                   *)
(***************************************************************************)
EXTENDS Integers, Sequences, FiniteSets, TLC

\* ------------------------------------------------------------------ bounds
MaxEvents == 2      \* network events handed to a detector
MaxImages == 2      \* DOM <img> elements
MaxEntries == 2     \* script coverage entries in one takePreciseCoverage result
MaxRules == 2       \* rule-usage records in one stopRuleUsageTracking result
MaxOffset == 10     \* largest byte offset of a coverage range
MaxResponses == 2   \* responses delivered to on_response in one run

\* ------------------------------------------------------- Python primitives
None == <<"None">>
NoneInt == -1
EmptyStr == <<>>

\* truthiness of a str-or-None value (`if x`, `x or y`)
Truthy(s) == s # None /\ s # EmptyStr
\* truthiness of an int-or-None value (`not img.get("width")`)
IntTruthy(n) == n # NoneInt /\ n # 0

Ord(c) == CASE c = "." -> 46 [] c = "/" -> 47 [] c = "a" -> 97 [] c = "b" -> 98
            [] c = "c" -> 99 [] c = "j" -> 106 [] c = "s" -> 115 [] OTHER -> 0

\* str.__lt__ : lexicographic comparison by code point
RECURSIVE StrLess(_, _)
StrLess(a, b) ==
    IF b = <<>> THEN FALSE
    ELSE IF a = <<>> THEN TRUE
    ELSE IF Ord(Head(a)) < Ord(Head(b)) THEN TRUE
    ELSE IF Ord(Head(a)) > Ord(Head(b)) THEN FALSE
    ELSE StrLess(Tail(a), Tail(b))

Range(s) == {s[i] : i \in 1..Len(s)}
InSeq(x, s) == \E i \in 1..Len(s) : s[i] = x

SeqsUpTo(S, n) == UNION {[1..k -> S] : k \in 0..n}

\* sorted(S) for a set of strings
RECURSIVE Sorted(_)
Sorted(S) ==
    IF S = {} THEN <<>>
    ELSE LET m == CHOOSE x \in S : \A y \in S : y = x \/ StrLess(x, y)
         IN  <<m>> \o Sorted(S \ {m})

\* urllib.parse.urljoin(base, src) for a non-empty src: an absolute
\* reference is kept, a relative one is resolved against the base
urljoin(base, src) == IF Head(src) = "/" THEN src ELSE base \o src

\* ------------------------------------------------- _detect_unused_images
base_url == <<"/">>

BadImage == [malformed |-> TRUE]     \* an element whose .get raises

ImgRec(src, abs, w, h) ==
    [malformed |-> FALSE, src |-> src, absolute_src |-> abs, width |-> w, height |-> h]

\* abs_src = img.get("absolute_src") or (urljoin(base_url, src) if src else "")
AbsSrc(img, base) ==
    LET src == IF Truthy(img.src) THEN img.src ELSE EmptyStr
    IN  IF Truthy(img.absolute_src) THEN img.absolute_src
        ELSE IF src # EmptyStr THEN urljoin(base, src) ELSE EmptyStr

NetImages(events) ==
    {ne.url : ne \in {e \in Range(events) : e.resource_type = "image" /\ Truthy(e.url)}}

DomAbs(imgs, base) ==
    {AbsSrc(img, base) : img \in {i \in Range(imgs) : AbsSrc(i, base) # EmptyStr}}

ZeroDom(imgs, base) ==
    {AbsSrc(img, base) : img \in {i \in Range(imgs) :
        AbsSrc(i, base) # EmptyStr /\ (~IntTruthy(i.width) \/ ~IntTruthy(i.height))}}

\* the inner try around page.evaluate: a raising scan yields bg_urls = []
BgUrls(sc) == IF sc.raises THEN {} ELSE sc.urls

UsedSet(imgs, base, sc) == DomAbs(imgs, base) \cup BgUrls(sc)

\* the fetched images sorted, the used ones not taken out
PrimaryDead_NoDiff(events, imgs, base, sc) == Sorted(NetImages(events))

PrimaryDead(events, imgs, base, sc) == Sorted(NetImages(events) \ UsedSet(imgs, base, sc))

\* for z in sorted(zero_dom): if z not in dead and z in net_images: dead.append(z)
RECURSIVE AppendZero(_, _, _)
AppendZero(dead, zs, net) ==
    IF zs = <<>> THEN dead
    ELSE LET z == Head(zs)
         IN  AppendZero(IF ~InSeq(z, dead) /\ z \in net THEN Append(dead, z) ELSE dead,
                        Tail(zs), net)

\* the outer try: an exception anywhere else returns []
DetectRaises(imgs) == \E i \in 1..Len(imgs) : imgs[i].malformed

\* the same with the whole result sorted again before it is returned
_detect_unused_images_Resorted(events, imgs, base, sc) ==
    IF DetectRaises(imgs) THEN <<>>
    ELSE Sorted(Range(AppendZero(PrimaryDead(events, imgs, base, sc),
                                 Sorted(ZeroDom(imgs, base)),
                                 NetImages(events))))

_detect_unused_images(events, imgs, base, sc) ==
    IF DetectRaises(imgs) THEN <<>>
    ELSE AppendZero(PrimaryDead(events, imgs, base, sc),
                    Sorted(ZeroDom(imgs, base)),
                    NetImages(events))

\* ---------------------------------------------- _stop_and_get_dead_files
\* unused_threshold = 0.7, kept as the fraction ThresholdNum / ThresholdDen
ThresholdNum == 7
ThresholdDen == 10

\* the same comparison with > instead of >=
AtLeastThreshold_Strict(used, total) == ThresholdDen * (total - used) > ThresholdNum * total

\* 1.0 - (used / total) >= unused_threshold, for total > 0
AtLeastThreshold(used, total) == ThresholdDen * (total - used) >= ThresholdNum * total

\* length = max(0, r.get("endOffset", 0) - r.get("startOffset", 0))
RangeLen(r) == IF r.endOffset - r.startOffset > 0 THEN r.endOffset - r.startOffset ELSE 0

\* the inner loop over func["ranges"]: [total, used] after the ranges rs
RECURSIVE RangesAcc(_, _)
RangesAcc(rs, acc) ==
    IF rs = <<>> THEN acc
    ELSE LET r == Head(rs)
         IN  RangesAcc(Tail(rs),
                 [total |-> acc.total + RangeLen(r),
                  used  |-> IF r.count > 0 THEN acc.used + RangeLen(r) ELSE acc.used])

\* the loop over entry["functions"]
RECURSIVE FunctionsAcc(_, _)
FunctionsAcc(fs, acc) ==
    IF fs = <<>> THEN acc
    ELSE FunctionsAcc(Tail(fs), RangesAcc(Head(fs).ranges, acc))

EntryCounts(e) == FunctionsAcc(e.functions, [total |-> 0, used |-> 0])

\* lines 100-114: does the entry append its url to dead
ScriptIsDead(e) ==
    /\ Truthy(e.url)
    /\ EntryCounts(e).total > 0
    /\ AtLeastThreshold(EntryCounts(e).used, EntryCounts(e).total)

\* the used flag ignored: every range counted as used
CssMapAdd_AllRanges(map, ru) ==
    LET len == RangeLen(ru)
        upd(v) == [sid |-> v.sid,
                   total_ranges |-> v.total_ranges + len,
                   used_ranges |-> v.used_ranges + len]
    IN  IF \E k \in 1..Len(map) : map[k].sid = ru.styleSheetId
        THEN [k \in 1..Len(map) |-> IF map[k].sid = ru.styleSheetId THEN upd(map[k]) ELSE map[k]]
        ELSE Append(map, upd([sid |-> ru.styleSheetId, total_ranges |-> 0, used_ranges |-> 0]))

\* lines 126-136: one rule-usage record folded into css_map (insertion ordered)
CssMapAdd(map, ru) ==
    LET len == RangeLen(ru)
        upd(v) == [sid |-> v.sid,
                   total_ranges |-> v.total_ranges + len,
                   used_ranges |-> IF ru.used THEN v.used_ranges + len ELSE v.used_ranges]
    IN  IF \E k \in 1..Len(map) : map[k].sid = ru.styleSheetId
        THEN [k \in 1..Len(map) |-> IF map[k].sid = ru.styleSheetId THEN upd(map[k]) ELSE map[k]]
        ELSE Append(map, upd([sid |-> ru.styleSheetId, total_ranges |-> 0, used_ranges |-> 0]))

\* len(txt.encode("utf-8"))
\* "eacute" stands for one two-byte character
Utf8Width(c) == IF c = "eacute" THEN 2 ELSE 1
RECURSIVE Utf8Len(_)
Utf8Len(txt) == IF txt = <<>> THEN 0 ELSE Utf8Width(Head(txt)) + Utf8Len(Tail(txt))

\* str.endswith
EndsWith(s, suf) ==
    Len(s) >= Len(suf) /\ SubSeq(s, Len(s) - Len(suf) + 1, Len(s)) = suf

\* ne_url.split("/")[-1]
RECURSIVE LastSegment(_)
LastSegment(s) ==
    IF s = <<>> THEN <<>>
    ELSE IF s[Len(s)] = "/" THEN <<>>
    ELSE Append(LastSegment(SubSeq(s, 1, Len(s) - 1)), s[Len(s)])

\* sub in txt
Contains(txt, sub) ==
    \E k \in 1..(Len(txt) + 1) :
        k + Len(sub) - 1 <= Len(txt) /\ SubSeq(txt, k, k + Len(sub) - 1) = sub

DotCss == <<".", "c", "s", "s">>
SizeSlack == 20

AbsDiff(a, b) == IF a >= b THEN a - b ELSE b - a

\* line 151: the test applied to one network event
CssEventMatches(ne, txt, total_real) ==
    /\ Truthy(ne.url)
    /\ EndsWith(ne.url, DotCss)
    /\ \/ Contains(txt, LastSegment(ne.url))
       \/ AbsDiff(IF ne.body_size = NoneInt THEN 0 ELSE ne.body_size, total_real) < SizeSlack

\* a loop without the break: a later matching event overrides the first
RECURSIVE UrlGuess_LastMatch(_, _, _)
UrlGuess_LastMatch(events, txt, total_real) ==
    IF events = <<>> THEN None
    ELSE IF CssEventMatches(events[Len(events)], txt, total_real) THEN events[Len(events)].url
    ELSE UrlGuess_LastMatch(SubSeq(events, 1, Len(events) - 1), txt, total_real)

\* lines 146-153: the first matching event's url, else None
RECURSIVE UrlGuess(_, _, _)
UrlGuess(events, txt, total_real) ==
    IF events = <<>> THEN None
    ELSE IF CssEventMatches(Head(events), txt, total_real) THEN Head(events).url
    ELSE UrlGuess(Tail(events), txt, total_real)

\* an empty text counted as entirely unused
SheetUnusedEnough_EmptyIsUnused(used_bytes, total_real) ==
    IF total_real > 0 THEN AtLeastThreshold(used_bytes, total_real) ELSE TRUE

\* line 143: unused_pct >= unused_threshold, unused_pct being 0.0 when
\* total_real is 0
SheetUnusedEnough(used_bytes, total_real) ==
    IF total_real > 0 THEN AtLeastThreshold(used_bytes, total_real)
    ELSE 0 >= ThresholdNum

\* lines 141-155: does the stylesheet append its guessed url
SheetIsDead(events, txt, used_bytes) ==
    /\ Truthy(UrlGuess(events, txt, Utf8Len(txt)))
    /\ SheetUnusedEnough(used_bytes, Utf8Len(txt))

\* deduplication through a set, which loses the insertion order
Dedup_ViaSet(s) == Sorted(Range(s))

\* list(dict.fromkeys(dead))
RECURSIVE Dedup(_)
Dedup(s) ==
    IF s = <<>> THEN <<>>
    ELSE LET r == Dedup(SubSeq(s, 1, Len(s) - 1))
         IN  IF InSeq(s[Len(s)], r) THEN r ELSE Append(r, s[Len(s)])

\* Exception handlers of _stop_and_get_dead_files, as the position at which
\* control continues.
\* lines 95-96: js_cov = None, control continues at the script block
CoverageExcept == "js"
\* lines 120-121: css_cov = None, the stylesheet block is skipped
RuleUsageExcept == "ret"
\* lines 157-159: the stylesheet is skipped, the loop continues
SheetExcept == "agg"
\* lines 161-162: anything else is swallowed, control reaches the return
OuterExcept == "ret"

\* ------------------------------------------------------------ input pools
ImgUrls == {<<"/", "a">>, <<"/", "a", "b">>, <<"/", "b">>}

ImgEvents ==
    {[url |-> u, resource_type |-> "image", body_size |-> NoneInt] : u \in ImgUrls}
    \cup {[url |-> <<"/", "a">>, resource_type |-> "script", body_size |-> NoneInt]}

DomSrcs == {<<"a">>, <<"/", "b">>}

Dims == {<<1, 1>>, <<0, 1>>, <<1, NoneInt>>}

DomImages ==
    {ImgRec(s, urljoin(base_url, s), d[1], d[2]) : s \in DomSrcs, d \in Dims}
    \cup {ImgRec(<<"a">>, None, 1, 0)}
    \cup {ImgRec(None, None, NoneInt, NoneInt), BadImage}

Scans ==
    {[raises |-> FALSE, urls |-> U] : U \in {{}, {<<"/", "b">>}, {<<"/", "a", "b">>, <<"/", "b">>}}}
    \cup {[raises |-> TRUE, urls |-> {}]}

Spaces(n) == [k \in 1..n |-> " "]

JsA == <<"/", "a", ".", "j", "s">>
JsB == <<"/", "b", ".", "j", "s">>
CssA == <<"/", "a", ".", "c", "s", "s">>
CssB == <<"/", "b", ".", "c", "s", "s">>

RangePool ==
    {[startOffset |-> st, endOffset |-> en, count |-> c] :
        st \in {0, 3}, en \in {0, 3, MaxOffset}, c \in {0, 1}}

FunctionLists ==
    {<<>>}
    \cup {<<[ranges |-> <<r>>]>> : r \in RangePool}
    \cup {<<[ranges |-> <<r1, r2>>]>> :
            r1 \in {r \in RangePool : r.startOffset = 0 /\ r.endOffset = 3 /\ r.count > 0},
            r2 \in {r \in RangePool : r.startOffset = 3 /\ r.endOffset # 3}}
    \cup {<<[ranges |-> <<r1>>], [ranges |-> <<r2>>]>> :
            r1 \in {r \in RangePool : r.startOffset = 0 /\ r.endOffset = 3},
            r2 \in {r \in RangePool : r.startOffset = 3 /\ r.endOffset = MaxOffset /\ r.count = 0}}

\* a coverage entry whose processing raises (e.g. a non-numeric offset)
BadEntry == [malformed |-> TRUE, url |-> JsA, functions |-> <<>>]
NoEntry == [malformed |-> FALSE, url |-> None, functions |-> <<>>]

EntryPool ==
    {[malformed |-> FALSE, url |-> u, functions |-> fl] : u \in {JsA, JsB}, fl \in FunctionLists}
    \cup {[malformed |-> FALSE, url |-> EmptyStr,
           functions |-> <<[ranges |-> <<[startOffset |-> 0, endOffset |-> MaxOffset, count |-> 0]>>]>>]}
    \cup {BadEntry}

RulePool ==
    {[styleSheetId |-> "s1", used |-> TRUE, startOffset |-> 0, endOffset |-> 3],
     [styleSheetId |-> "s1", used |-> FALSE, startOffset |-> 0, endOffset |-> MaxOffset],
     [styleSheetId |-> "s1", used |-> TRUE, startOffset |-> 3, endOffset |-> 0],
     [styleSheetId |-> "s2", used |-> TRUE, startOffset |-> 0, endOffset |-> MaxOffset],
     [styleSheetId |-> "s2", used |-> FALSE, startOffset |-> 0, endOffset |-> 3]}

\* no rule-usage record iterated yet
NoRule == [styleSheetId |-> "none", used |-> FALSE, startOffset |-> 0, endOffset |-> 0]

\* outcomes of cdp.send("CSS.getStyleSheetText", ...)
SheetTexts ==
    {EmptyStr, Spaces(20), <<"a", ".", "c", "s", "s">> \o Spaces(5),
     <<"eacute">> \o Spaces(19), Spaces(30)}

NoSheet == [raises |-> FALSE, text |-> None]

SheetFetches ==
    {[raises |-> FALSE, text |-> t] : t \in SheetTexts} \cup {[raises |-> TRUE, text |-> EmptyStr]}

FileEvents ==
    {[url |-> CssA, resource_type |-> "stylesheet", body_size |-> 40],
     [url |-> CssB, resource_type |-> "stylesheet", body_size |-> NoneInt],
     [url |-> JsA, resource_type |-> "script", body_size |-> 10]}

\* ------------------------------------------------------------------ state
VARIABLES
    call,            \* which function of the module is being executed
    network_events,  \* the list of recorded responses
    images,          \* the DOM image records handed to the correlator
    scan,            \* outcome of the page.evaluate style scan
    dead_images,     \* value returned by _detect_unused_images
    ipc,             \* position in _detect_unused_images
    dpc,             \* position in _stop_and_get_dead_files
    dead,            \* its local list dead
    dead_meas,       \* history: for each element of dead, was the measured total > 0
    js_left,         \* coverage entries of js_cov["result"] not yet iterated
    entry,           \* the coverage entry of the last loop iteration
    css_asked,       \* history: CSS.stopRuleUsageTracking has been sent
    ru_left,         \* rule-usage records not yet aggregated
    css_map,         \* css_map, in insertion order
    sheet_i,         \* stylesheets of css_map already iterated
    sheet,           \* the getStyleSheetText outcome of the last loop iteration
    url_guess,       \* its local url_guess, as the last loop iteration left it
    ru,              \* the rule-usage record of the aggregation step just taken
    cov_failed,      \* history: take/stopPreciseCoverage raised
    dead_files,      \* value returned by _stop_and_get_dead_files
    spc,             \* position in _start_cdp_coverage
    rpc,             \* position in run_analysis
    imported,        \* the playwright import succeeded
    cdp_ok,          \* cdp is not None
    report,          \* the dict report
    faults,          \* history: what failed during this run
    ret,             \* what run_analysis handed to its caller
    in_flight,       \* on_response calls that are inside response.body()
    delivered,       \* history: number of responses handed to on_response
    steps            \* history: the calls run_analysis has made, in order

imgVars == <<images, scan, dead_images, ipc>>
stopVars == <<dpc, dead, dead_meas, js_left, entry, css_asked, ru_left, css_map, sheet_i,
              sheet, url_guess, ru, cov_failed, dead_files>>
startVars == <<spc>>

runVars == <<rpc, imported, cdp_ok, report, faults, ret, in_flight, delivered, steps>>

vars == <<call, network_events, imgVars, stopVars, startVars, runVars>>

ImgIdle ==
    /\ images = <<>>
    /\ scan = [raises |-> FALSE, urls |-> {}]
    /\ dead_images = <<>>
    /\ ipc = "idle"

StopLocals ==
    /\ dead = <<>>
    /\ dead_meas = <<>>
    /\ js_left = 0
    /\ entry = NoEntry
    /\ css_asked = FALSE
    /\ ru_left = 0
    /\ css_map = <<>>
    /\ sheet_i = 0
    /\ sheet = NoSheet
    /\ url_guess = None
    /\ ru = NoRule
    /\ cov_failed = FALSE
    /\ dead_files = <<>>

StopIdle == dpc = "idle" /\ StopLocals

StartIdle == spc = "idle"

\* lines 172-180
NewReport ==
    [summary |-> [populated |-> FALSE, total_requests |-> 0, total_transfer_bytes |-> 0,
                  total_images |-> 0, total_css_js_files |-> 0, dead_images_count |-> 0],
     requests |-> <<>>, images |-> <<>>, css_js |-> <<>>, notes |-> <<>>,
     has_dead_files |-> FALSE, dead_files |-> <<>>,
     has_dead_images |-> FALSE, dead_images |-> <<>>]

RunIdle ==
    /\ rpc = "idle" /\ imported = FALSE /\ cdp_ok = FALSE
    /\ report = NewReport /\ faults = {} /\ ret = "pending"
    /\ in_flight = <<>> /\ delivered = 0 /\ steps = <<>>

\* a call of _detect_unused_images(page, network_events, images, base_url)
InitImg ==
    /\ call = "detect"
    /\ network_events \in SeqsUpTo(ImgEvents, MaxEvents)
    /\ images \in SeqsUpTo(DomImages, MaxImages)
    /\ scan \in Scans
    /\ dead_images = <<>>
    /\ ipc = "call"
    /\ StopIdle /\ StartIdle /\ RunIdle

\* a call of _stop_and_get_dead_files(cdp, network_events, unused_threshold=0.7)
InitStop ==
    /\ call = "stop"
    /\ network_events \in SeqsUpTo(FileEvents, MaxEvents)
    /\ dpc = "take" /\ StopLocals
    /\ ImgIdle /\ StartIdle /\ RunIdle

\* a call of _start_cdp_coverage(cdp)
InitStart ==
    /\ call = "start"
    /\ network_events = <<>>
    /\ spc = "profiler"
    /\ ImgIdle /\ StopIdle /\ RunIdle

\* a call of run_analysis(url)
InitRun ==
    /\ call = "run"
    /\ network_events = <<>>
    /\ rpc = "import" /\ imported = FALSE /\ cdp_ok = FALSE
    /\ report = NewReport /\ faults = {} /\ ret = "pending"
    /\ in_flight = <<>> /\ delivered = 0 /\ steps = <<>>
    /\ ImgIdle /\ StopIdle /\ StartIdle

\* ------------------------------------------------- _detect_unused_images
DetectCall ==
    /\ call = "detect"
    /\ ipc = "call"
    /\ dead_images' = _detect_unused_images(network_events, images, base_url, scan)
    /\ ipc' = "done"
    /\ UNCHANGED <<call, network_events, images, scan, stopVars, startVars, runVars>>

\* --------------------------------------------------- _start_cdp_coverage
ProfilerCmds == <<"Profiler.enable", "Profiler.startPreciseCoverage">>
CssCmds == <<"DOM.enable", "CSS.enable", "CSS.startRuleUsageTracking">>

\* a handler that re-raises
StartExcept_Reraises(next) == "raised"

\* lines 74-75 and 80-81: `except Exception: pass`
StartExcept(next) == next

\* lines 71-75: k sends go through, then one raises (k = 2: none raises)
StartProfiler ==
    /\ spc = "profiler"
    /\ \E k \in 0..Len(ProfilerCmds) :
          spc' = IF k < Len(ProfilerCmds) THEN StartExcept("css") ELSE "css"
    /\ UNCHANGED <<call, network_events, imgVars, stopVars, runVars>>

\* lines 76-81
StartCss ==
    /\ spc = "css"
    /\ \E k \in 0..Len(CssCmds) :
          spc' = IF k < Len(CssCmds) THEN StartExcept("done") ELSE "done"
    /\ UNCHANGED <<call, network_events, imgVars, stopVars, runVars>>

\* ---------------------------------------------- _stop_and_get_dead_files
\* lines 91-98: takePreciseCoverage then stopPreciseCoverage; either raising
\* leaves js_cov = None; a result without "result" is skipped as well
TakeCoverage ==
    /\ dpc = "take"
    /\ \/ \E m \in {"Profiler.takePreciseCoverage", "Profiler.stopPreciseCoverage"} :
             /\ cov_failed' = TRUE
             /\ js_left' = 0
             /\ dpc' = CoverageExcept
       \/ \E n \in 0..MaxEntries :
             /\ js_left' = n
             /\ cov_failed' = FALSE
             /\ dpc' = "js"
    /\ UNCHANGED <<call, network_events, imgVars, startVars, runVars, dead, dead_meas, entry,
                   css_asked, ru_left, css_map, sheet_i, sheet, url_guess, ru, dead_files>>

\* lines 99-114: one iteration of the loop over js_cov["result"]
ScriptEntry ==
    /\ dpc = "js" /\ js_left > 0
    /\ \E e \in EntryPool :
          /\ entry' = e
          /\ js_left' = js_left - 1
          /\ IF e.malformed
             THEN /\ dpc' = OuterExcept
                  /\ UNCHANGED <<dead, dead_meas>>
             ELSE /\ dpc' = "js"
                  /\ dead' = IF ScriptIsDead(e) THEN Append(dead, e.url) ELSE dead
                  /\ dead_meas' = IF ScriptIsDead(e)
                                  THEN Append(dead_meas, EntryCounts(e).total > 0)
                                  ELSE dead_meas
    /\ UNCHANGED <<call, network_events, imgVars, startVars, runVars, css_asked, ru_left, css_map,
                   sheet_i, sheet, url_guess, ru, cov_failed, dead_files>>

\* lines 117-125: CSS.stopRuleUsageTracking
StopRuleUsage ==
    /\ dpc = "js" /\ js_left = 0
    /\ css_asked' = TRUE
    /\ entry' = NoEntry
    /\ \/ /\ ru_left' = 0
          /\ dpc' = RuleUsageExcept
       \/ \E n \in 0..MaxRules :
             /\ ru_left' = n
             /\ dpc' = "agg"
    /\ UNCHANGED <<call, network_events, imgVars, startVars, runVars, dead, dead_meas, js_left,
                   css_map, sheet_i, sheet, url_guess, ru, cov_failed, dead_files>>

\* lines 126-136: one rule-usage record
RuleRecord ==
    /\ dpc = "agg" /\ ru_left > 0
    /\ \E r \in RulePool : ru' = r /\ css_map' = CssMapAdd(css_map, r)
    /\ ru_left' = ru_left - 1
    /\ UNCHANGED <<call, network_events, imgVars, startVars, runVars, dpc, dead, dead_meas, js_left,
                   entry, css_asked, sheet_i, sheet, url_guess, cov_failed, dead_files>>

\* lines 138-159: one iteration of the loop over css_map.items()
StyleSheet ==
    /\ dpc = "agg" /\ ru_left = 0 /\ sheet_i < Len(css_map)
    /\ sheet_i' = sheet_i + 1
    /\ ru' = NoRule        \* the aggregation loop is over, its variable is not read again
    /\ \E f \in SheetFetches :
          /\ sheet' = f
          /\ IF f.raises
             THEN /\ dpc' = SheetExcept
                  /\ UNCHANGED <<dead, dead_meas, url_guess>>
             ELSE LET vals == css_map[sheet_i + 1]
                      isDead == SheetIsDead(network_events, f.text, vals.used_ranges)
                  IN  /\ url_guess' = UrlGuess(network_events, f.text, Utf8Len(f.text))
                      /\ IF isDead
                         THEN /\ dead' = Append(dead, url_guess')
                              /\ dead_meas' = Append(dead_meas, Utf8Len(f.text) > 0)
                         ELSE UNCHANGED <<dead, dead_meas>>
                      /\ UNCHANGED dpc
    /\ UNCHANGED <<call, network_events, imgVars, startVars, runVars, js_left, entry, css_asked,
                   ru_left, css_map, cov_failed, dead_files>>

\* lines 164-165
StopReturn ==
    /\ \/ dpc = "ret"
       \/ dpc = "agg" /\ ru_left = 0 /\ sheet_i = Len(css_map)
    /\ dead_files' = Dedup(dead)
    /\ dpc' = "done"
    /\ UNCHANGED <<call, network_events, imgVars, startVars, runVars, dead, dead_meas, js_left, entry,
                   css_asked, ru_left, css_map, sheet_i, sheet, url_guess, ru, cov_failed>>

\* ------------------------------------------------------------ run_analysis
Absent == -1        \* no content-length header
Garbage == -2       \* a content-length header int() cannot parse

\* what on_response can record (lines 201-213); body_size is None when
\* response.body() raised
Responses ==
    {[url |-> <<"/", "a">>, status |-> 200, resource_type |-> "image",
      content_length |-> Absent, body_size |-> 7],
     [url |-> CssA, status |-> 200, resource_type |-> "stylesheet",
      content_length |-> 40, body_size |-> NoneInt],
     [url |-> JsA, status |-> 302, resource_type |-> "script",
      content_length |-> Garbage, body_size |-> NoneInt]}

\* the records lines 244-258 build for the <img> elements
RunImages ==
    {ImgRec(src, urljoin(base_url, src), d[1], d[2]) :
        src \in DomSrcs, d \in {<<1, 1>>, <<0, 1>>, <<1, NoneInt>>}}
    \cup {ImgRec(None, None, NoneInt, NoneInt)}

\* style-scan outcomes of a run
RunScans == {sc \in Scans : Cardinality(sc.urls) <= 1}

Note(tag, detail) == <<tag, detail>>

\* lines 310-312: the handler appends a note and has no return statement, so
\* the function ends without a value
RunExceptNote(rep, e) ==
    [rep EXCEPT !.notes = Append(@, Note("playwright_runtime_error", e))]
RunExceptReturns == "None"

\* line 265: r.get("body_size") or int(r["headers"].get("content-length", 0))
SizeRaises(r) == r.body_size \in {NoneInt, 0} /\ r.content_length = Garbage
TransferSize(r) ==
    IF r.body_size \notin {NoneInt, 0} THEN r.body_size
    ELSE IF r.content_length = Absent THEN 0 ELSE r.content_length

\* lines 264-273
ReqsOut(events) ==
    [k \in 1..Len(events) |->
        [url |-> events[k].url, status |-> events[k].status,
         resource_type |-> events[k].resource_type,
         transfer_size |-> TransferSize(events[k])]]

RECURSIVE TotalTransfer(_)
TotalTransfer(events) ==
    IF events = <<>> THEN 0 ELSE TransferSize(Head(events)) + TotalTransfer(Tail(events))

\* lines 276-284
RECURSIVE CssJs(_)
CssJs(reqs) ==
    IF reqs = <<>> THEN <<>>
    ELSE (IF Head(reqs).resource_type \in {"stylesheet", "script"}
          THEN <<[url |-> Head(reqs).url, type |-> Head(reqs).resource_type,
                  size |-> Head(reqs).transfer_size]>>
          ELSE <<>>) \o CssJs(Tail(reqs))

runRest == <<call, imgVars, stopVars, startVars>>

\* lines 185-189
RunImport ==
    /\ rpc = "import"
    /\ \E ok \in BOOLEAN :
          /\ imported' = ok
          /\ report' = IF ok THEN report
                       ELSE [report EXCEPT !.notes = Append(@, Note("playwright_not_available", "import"))]
          /\ faults' = IF ok THEN faults ELSE faults \cup {"import"}
    /\ rpc' = "launch"
    /\ UNCHANGED <<network_events, cdp_ok, ret, in_flight, delivered, steps, runRest>>

\* lines 191-219: sync_playwright is unbound when the import failed; the
\* browser launch may fail; otherwise on_response is registered
RunLaunch ==
    /\ rpc = "launch"
    /\ \/ /\ ~imported
          /\ report' = RunExceptNote(report, "NameError")
          /\ ret' = RunExceptReturns
          /\ rpc' = "returned"
          /\ UNCHANGED <<network_events, faults, steps>>
       \/ /\ imported
          /\ report' = RunExceptNote(report, "launch")
          /\ faults' = faults \cup {"launch"}
          /\ ret' = RunExceptReturns
          /\ rpc' = "returned"
          /\ UNCHANGED <<network_events, steps>>
       \/ /\ imported
          /\ network_events' = <<>>
          /\ steps' = Append(steps, "page.on")
          /\ rpc' = "cdp"
          /\ UNCHANGED <<report, faults, ret>>
    /\ UNCHANGED <<imported, cdp_ok, in_flight, delivered, runRest>>

\* lines 221-226
RunCdp ==
    /\ rpc = "cdp"
    /\ \/ /\ cdp_ok' = FALSE
          /\ faults' = faults \cup {"cdp"}
          /\ steps' = Append(steps, "page.goto")
          /\ rpc' = "goto"
          /\ UNCHANGED startVars
       \/ /\ cdp_ok' = TRUE
          /\ spc' = "profiler"
          /\ steps' = Append(steps, "_start_cdp_coverage")
          /\ rpc' = "start"
          /\ UNCHANGED faults
    /\ UNCHANGED <<call, network_events, imgVars, stopVars, imported, report, ret,
                   in_flight, delivered>>

\* _start_cdp_coverage(cdp) has returned; line 228: page.goto is called
RunStarted ==
    /\ rpc = "start" /\ spc = "done"
    /\ steps' = Append(steps, "page.goto")
    /\ rpc' = "goto"
    /\ UNCHANGED <<network_events, imported, cdp_ok, report, faults, ret, in_flight, delivered,
                   runRest>>

\* lines 199-210: a response is handed to the callback while goto or
\* wait_for_timeout blocks. Building the entry may raise, which lines 216-217
\* swallow: nothing is appended. Otherwise the callback calls response.body(),
\* a blocking call of its own, during which the main flow goes on.
OnResponse ==
    /\ rpc \in {"goto", "wait"}
    /\ delivered < MaxResponses
    /\ delivered' = delivered + 1
    /\ \/ UNCHANGED in_flight
       \/ \E r \in Responses : in_flight' = Append(in_flight, r)
    /\ UNCHANGED <<network_events, rpc, imported, cdp_ok, report, faults, ret, steps, runRest>>

\* the main flow is inside a call of the browser library, during which the
\* library runs callbacks
InLibraryCall ==
    \/ rpc \in {"goto", "wait", "dom"}
    \/ rpc = "stopping" /\ dpc \in {"take", "js", "agg"}

\* lines 210-215: response.body() returns or raises in a suspended callback
\* (body_size is None when it raised) and the entry is appended
BodyReturns ==
    /\ InLibraryCall
    /\ \E k \in 1..Len(in_flight) :
          /\ network_events' = Append(network_events, in_flight[k])
          /\ in_flight' = SubSeq(in_flight, 1, k - 1) \o SubSeq(in_flight, k + 1, Len(in_flight))
    /\ UNCHANGED <<rpc, imported, cdp_ok, report, faults, ret, delivered, steps, runRest>>

\* line 228: navigation completes or times out
RunGoto ==
    /\ rpc = "goto"
    /\ \/ /\ rpc' = "wait"
          /\ steps' = Append(steps, "page.wait_for_timeout")
          /\ UNCHANGED <<report, faults, ret>>
       \/ /\ report' = RunExceptNote(report, "TimeoutError")
          /\ faults' = faults \cup {"timeout"}
          /\ ret' = RunExceptReturns
          /\ rpc' = "returned"
          /\ UNCHANGED steps
    /\ UNCHANGED <<network_events, imported, cdp_ok, in_flight, delivered, runRest>>

\* line 229
RunWait ==
    /\ rpc = "wait"
    /\ steps' = Append(steps, "waited")
    /\ rpc' = "stop"
    /\ UNCHANGED <<network_events, imported, cdp_ok, report, faults, ret, in_flight, delivered,
                   runRest>>

\* lines 232-238 without a session, or entering _stop_and_get_dead_files
RunStop ==
    /\ rpc = "stop"
    /\ IF cdp_ok
       THEN /\ dpc' = "take"
            /\ steps' = Append(steps, "_stop_and_get_dead_files")
            /\ rpc' = "stopping"
            /\ UNCHANGED report
       ELSE /\ report' = [report EXCEPT !.has_dead_files = TRUE, !.dead_files = <<>>]
            /\ steps' = Append(steps, "page.query_selector_all")
            /\ rpc' = "dom"
            /\ UNCHANGED dpc
    /\ UNCHANGED <<call, network_events, imgVars, startVars, imported, cdp_ok, faults, ret,
                   in_flight, delivered,
                   dead, dead_meas, js_left, entry, css_asked, ru_left, css_map, sheet_i,
                   sheet, url_guess, ru, cov_failed, dead_files>>

\* lines 235-238: _stop_and_get_dead_files has returned
RunStopped ==
    /\ rpc = "stopping" /\ dpc = "done"
    /\ report' = [report EXCEPT !.has_dead_files = TRUE, !.dead_files = dead_files]
    /\ dpc' = "idle"
    /\ dead' = <<>> /\ dead_meas' = <<>> /\ js_left' = 0 /\ entry' = NoEntry
    /\ css_asked' = FALSE /\ ru_left' = 0 /\ css_map' = <<>> /\ sheet_i' = 0
    /\ sheet' = NoSheet /\ url_guess' = None /\ ru' = NoRule
    /\ cov_failed' = FALSE /\ dead_files' = <<>>
    /\ steps' = Append(steps, "page.query_selector_all")
    /\ rpc' = "dom"
    /\ UNCHANGED <<call, network_events, imgVars, startVars, imported, cdp_ok, faults, ret,
                   in_flight, delivered>>

\* lines 241-258
RunDom ==
    /\ rpc = "dom"
    /\ images' \in SeqsUpTo(RunImages, MaxImages)
    /\ rpc' = "report"
    /\ UNCHANGED <<call, network_events, scan, dead_images, ipc, stopVars, startVars,
                   imported, cdp_ok, report, faults, ret, in_flight, delivered, steps>>

\* lines 261-304: inventories, dead images, summary, closing note
RunReport ==
    /\ rpc = "report"
    /\ IF \E k \in 1..Len(network_events) : SizeRaises(network_events[k])
       THEN /\ report' = RunExceptNote(report, "ValueError")
            /\ faults' = faults \cup {"size"}
            /\ ret' = RunExceptReturns
            /\ rpc' = "returned"
            /\ UNCHANGED <<scan, dead_images>>
       ELSE /\ scan' \in RunScans
            /\ dead_images' = _detect_unused_images(network_events, images, base_url, scan')
            /\ report' =
                 [report EXCEPT
                    !.has_dead_images = TRUE,
                    !.dead_images = dead_images',
                    !.images = images,
                    !.requests = ReqsOut(network_events),
                    !.css_js = CssJs(ReqsOut(network_events)),
                    !.summary = [populated |-> TRUE,
                                 total_requests |-> Len(network_events),
                                 total_transfer_bytes |-> TotalTransfer(network_events),
                                 total_images |-> Len(images),
                                 total_css_js_files |-> Len(CssJs(ReqsOut(network_events))),
                                 dead_images_count |-> Len(dead_images')],
                    !.notes = Append(@, Note("analysis_via_playwright_OK", "ok"))]
            /\ rpc' = "close"
            /\ UNCHANGED <<faults, ret>>
    /\ UNCHANGED <<call, network_events, images, ipc, stopVars, startVars, imported, cdp_ok,
                   in_flight, delivered, steps>>

\* lines 306-308
RunReturn ==
    /\ rpc = "close"
    /\ ret' = "report"
    /\ rpc' = "returned"
    /\ UNCHANGED <<network_events, imported, cdp_ok, report, faults, in_flight, delivered, steps,
                   runRest>>

\* -------------------------------------------------------- specifications
\* one call of one of the three helper functions
Init == InitImg \/ InitStop \/ InitStart

StartNext == StartProfiler \/ StartCss

StopNext ==
    \/ TakeCoverage
    \/ ScriptEntry
    \/ StopRuleUsage
    \/ RuleRecord
    \/ StyleSheet
    \/ StopReturn

Next ==
    \/ DetectCall
    \/ StartNext
    \/ StopNext

Spec == Init /\ [][Next]_vars

\* one call of run_analysis, the helper functions being executed inside it
NextRun ==
    \/ RunImport
    \/ RunLaunch
    \/ RunCdp
    \/ StartNext
    \/ RunStarted
    \/ OnResponse
    \/ BodyReturns
    \/ RunGoto
    \/ RunWait
    \/ RunStop
    \/ StopNext
    \/ RunStopped
    \/ RunDom
    \/ RunReport
    \/ RunReturn

SpecRun == InitRun /\ [][NextRun]_vars

\* ----------------------------------------------------------------- claims
NoDup(s) == \A i, j \in 1..Len(s) : i # j => s[i] # s[j]

DetectDone == call = "detect" /\ ipc = "done"

DetectNoException == ~scan.raises /\ ~DetectRaises(images)

usedSet == UsedSet(images, base_url, scan)

fetchedImages == {network_events[i].url : i \in {k \in 1..Len(network_events) :
                        network_events[k].resource_type = "image"}}

StopDone == call = "stop" /\ dpc = "done"

\* total and used of a coverage entry, summed over the positions of its ranges
RangeAt(e, p) == e.functions[p[1]].ranges[p[2]]
RangePositions(e) ==
    UNION {{<<f, r>> : r \in 1..Len(e.functions[f].ranges)} : f \in 1..Len(e.functions)}
RECURSIVE SumLengths(_, _)
SumLengths(e, P) ==
    IF P = {} THEN 0
    ELSE LET p == CHOOSE q \in P : TRUE
             d == RangeAt(e, p).endOffset - RangeAt(e, p).startOffset
         IN  (IF d > 0 THEN d ELSE 0) + SumLengths(e, P \ {p})
TotalOf(e) == SumLengths(e, RangePositions(e))
UsedOf(e) == SumLengths(e, {p \in RangePositions(e) : RangeAt(e, p).count > 0})

\* C1: when the loop processes a coverage entry with a non-empty URL and
\* total > 0, then 0 <= used <= total and the entry's URL is appended to dead
\* if and only if 1 - used/total >= 0.7 (nothing else is appended).
C1_ScriptClassification ==
    [][ (dpc = "js" /\ js_left' = js_left - 1 /\ ~entry'.malformed
            /\ entry'.url # EmptyStr /\ TotalOf(entry') > 0)
        => /\ 0 <= UsedOf(entry') /\ UsedOf(entry') <= TotalOf(entry')
           /\ IF 10 * (TotalOf(entry') - UsedOf(entry')) >= 7 * TotalOf(entry')
              THEN dead' = Append(dead, entry'.url)
              ELSE dead' = dead ]_vars

\* an entry with used/total = 3/10 exactly has just been classified dead
C1_Witness ==
    /\ call = "stop" /\ dpc = "js" /\ entry # NoEntry /\ ~entry.malformed
    /\ UsedOf(entry) > 0
    /\ 10 * UsedOf(entry) = 3 * TotalOf(entry)
    /\ dead # <<>> /\ dead[Len(dead)] = entry.url

\* C4 (as stated): an item that raises is skipped and every other coverage
\* entry and stylesheet is still classified: when the call has returned, no
\* coverage entry is left unvisited, rule usage was requested and every
\* aggregated stylesheet was visited.
C4_FailOpenPerItem ==
    StopDone =>
        /\ js_left = 0
        /\ css_asked
        /\ ru_left = 0
        /\ sheet_i = Len(css_map)

FirstIndex(s, x) == CHOOSE i \in 1..Len(s) : s[i] = x /\ \A j \in 1..(i - 1) : s[j] # x

\* C5 (as stated): when navigation timed out, run_analysis hands its caller
\* a report that holds a note for the timeout and, as requests, the network
\* events recorded before the timeout.
C5_TimeoutYieldsReport ==
    (call = "run" /\ rpc = "returned" /\ "timeout" \in faults) =>
        /\ ret = "report"
        /\ \E k \in 1..Len(report.notes) : report.notes[k][2] = "TimeoutError"
        /\ Len(report.requests) = Len(network_events)
        /\ \A k \in 1..Len(report.requests) : report.requests[k].url = network_events[k].url

\* C6 (as stated): run_analysis never raises, and when the debug-protocol
\* session or the browser library is unavailable it returns a report with
\* empty dead-asset lists, a note appended for that unavailability, and the
\* other fields populated from the recorded telemetry.
C6_DegradesToReport ==
    /\ ret # "raised"
    /\ (call = "run" /\ rpc = "returned" /\ faults \cap {"cdp", "import"} # {}) =>
          /\ ret = "report"
          /\ report.has_dead_files /\ report.dead_files = <<>>
          /\ "cdp" \in faults =>
                \E k \in 1..Len(report.notes) : report.notes[k][2] = "cdp"
          /\ "import" \in faults =>
                \E k \in 1..Len(report.notes) : report.notes[k][1] = "playwright_not_available"
          /\ report.summary.populated
          /\ Len(report.requests) = Len(network_events)

\* C7: the returned dead-file list has no duplicate, holds exactly the URLs
\* classified dead, in the order of their first classification; the returned
\* dead-image list has no duplicate.
C7_NoDuplicatesFirstSeen ==
    /\ StopDone =>
          /\ NoDup(dead_files)
          /\ Range(dead_files) = Range(dead)
          /\ \A i, j \in 1..Len(dead_files) :
                i < j => FirstIndex(dead, dead_files[i]) < FirstIndex(dead, dead_files[j])
    /\ (call = "detect" /\ ipc = "done") => NoDup(dead_images)

\* a URL classified dead twice, after a URL that sorts behind it
C7_Witness ==
    /\ StopDone
    /\ Len(dead_files) >= 2
    /\ Len(dead) > Len(dead_files)
    /\ StrLess(dead_files[2], dead_files[1])

C10_NeverRaises ==
    /\ spc \in {"idle", "profiler", "css", "done"}
    /\ dpc \in {"idle", "take", "js", "agg", "ret", "done"}
    /\ StopDone => \A i \in 1..Len(dead_files) : Truthy(dead_files[i])

\* the call returned although coverage and a stylesheet fetch both raised
C10_Witness ==
    /\ StopDone
    /\ cov_failed
    /\ sheet_i > 0 /\ sheet.raises

\* C2 (as stated): no URL of the returned dead-image list is a member of
\* usedSet, zero-size appends included.
C2_NoDeadImageUsed ==
    DetectDone => \A i \in 1..Len(dead_images) : dead_images[i] \notin usedSet

\* C2 (amended): the URLs of the primary diff (the first |fetched - used|
\* positions) are never in usedSet; a returned URL that is in usedSet is the
\* absolute src of a fetched DOM image whose width or height is missing or
\* zero, and it sits after the primary diff.
C2_UsedOnlyIfZeroSize ==
    DetectDone =>
        LET k == Cardinality(fetchedImages \ usedSet)
        IN  \A i \in 1..Len(dead_images) :
                /\ i <= k => dead_images[i] \notin usedSet
                /\ dead_images[i] \in usedSet =>
                      /\ i > k
                      /\ dead_images[i] \in fetchedImages
                      /\ \E n \in 1..Len(images) :
                            /\ ~images[n].malformed
                            /\ AbsSrc(images[n], base_url) = dead_images[i]
                            /\ (~IntTruthy(images[n].width) \/ ~IntTruthy(images[n].height))

C2_Witness ==
    /\ DetectDone
    /\ \E i, j \in 1..Len(dead_images) :
          dead_images[i] \notin usedSet /\ dead_images[j] \in usedSet

\* C3 (as stated): whenever a step of the correlation raised, the style scan
\* included, the call returned the empty list.
C3_FailClosed ==
    (DetectDone /\ (scan.raises \/ DetectRaises(images))) => dead_images = <<>>

\* C9: without exception the result is the primary diff, ascending, followed
\* by the fetched zero-size DOM URLs not in the primary diff, ascending; the
\* two runs are not merged.
C9_TwoPhaseOrder ==
    (DetectDone /\ DetectNoException) =>
        LET P == fetchedImages \ usedSet
            Z == {u \in fetchedImages \ P : \E n \in 1..Len(images) :
                      /\ AbsSrc(images[n], base_url) = u
                      /\ (~IntTruthy(images[n].width) \/ ~IntTruthy(images[n].height))}
            k == Cardinality(P)
            n == Len(dead_images)
        IN  /\ n = k + Cardinality(Z)
            /\ {dead_images[i] : i \in 1..k} = P
            /\ {dead_images[i] : i \in (k + 1)..n} = Z
            /\ \A i, j \in 1..k : i < j => StrLess(dead_images[i], dead_images[j])
            /\ \A i, j \in (k + 1)..n : i < j => StrLess(dead_images[i], dead_images[j])

C9_Witness ==
    /\ DetectDone /\ DetectNoException
    /\ \E i, j \in 1..Len(dead_images) : i < j /\ StrLess(dead_images[j], dead_images[i])

\* one iteration of the stylesheet loop whose getStyleSheetText returned
SheetStep == dpc = "agg" /\ sheet_i' = sheet_i + 1 /\ ~sheet'.raises

\* the positions of network_events a set of positions starts with
FirstOf(K) == CHOOSE k \in K : \A j \in K : k <= j

\* the event's url ends in ".css" and its filename occurs in the text, or
\* its body size was recorded and differs from realTotal by less than 20
RecordedSizeMatch(ne, txt) ==
    /\ EndsWith(ne.url, DotCss)
    /\ \/ Contains(txt, LastSegment(ne.url))
       \/ /\ ne.body_size # NoneInt
          /\ AbsDiff(ne.body_size, Utf8Len(txt)) < SizeSlack

\* C11 (as stated): the URL resolved for a stylesheet is the URL of the first
\* network event, in list order, whose URL ends in ".css" and whose filename
\* is a substring of the text or whose recorded body size is within 20 bytes
\* of realTotal; no URL is resolved when no event matches.
C11_FirstRecordedMatch ==
    [][ SheetStep =>
          LET M == {k \in 1..Len(network_events) :
                        RecordedSizeMatch(network_events[k], sheet'.text)}
          IN  IF M = {} THEN url_guess' = None
              ELSE url_guess' = network_events[FirstOf(M)].url ]_vars

\* as RecordedSizeMatch, a body size that was not recorded counting as 0
CountedSizeMatch(ne, txt) ==
    /\ EndsWith(ne.url, DotCss)
    /\ \/ Contains(txt, LastSegment(ne.url))
       \/ AbsDiff(IF ne.body_size = NoneInt THEN 0 ELSE ne.body_size, Utf8Len(txt)) < SizeSlack

\* C11 (amended): for a stylesheet whose text was fetched, the URL resolved
\* is the URL of the first network event, in list order, whose URL ends in
\* ".css" and whose filename is a substring of the text or whose body size,
\* taken as 0 when none was recorded, differs from realTotal (the UTF-8 byte
\* length of the text) by less than 20; later matching events never override
\* the first, and no URL is resolved when no event matches.
C11_FirstCountedMatch ==
    [][ SheetStep =>
          LET M == {k \in 1..Len(network_events) :
                        CountedSizeMatch(network_events[k], sheet'.text)}
          IN  IF M = {} THEN url_guess' = None
              ELSE url_guess' = network_events[FirstOf(M)].url ]_vars

\* two events with different URLs match the fetched text, the second one by
\* an unrecorded body size only, and the first one's URL was resolved
C11_Witness ==
    /\ call = "stop" /\ dpc = "agg" /\ sheet_i > 0 /\ ~sheet.raises
    /\ Len(network_events) = 2
    /\ network_events[1].url # network_events[2].url
    /\ CountedSizeMatch(network_events[1], sheet.text)
    /\ CountedSizeMatch(network_events[2], sheet.text)
    /\ ~RecordedSizeMatch(network_events[2], sheet.text)
    /\ url_guess = network_events[1].url

\* one rule-usage record aggregated
RuleStep == dpc = "agg" /\ ru_left' = ru_left - 1

\* the stylesheet identifiers of the rule-usage records
SheetIds == {r.styleSheetId : r \in RulePool}

\* usedBytes aggregated so far for a stylesheet identifier
UsedBytes(map, sid) ==
    IF \E k \in 1..Len(map) : map[k].sid = sid
    THEN (CHOOSE v \in Range(map) : v.sid = sid).used_ranges
    ELSE 0

\* max(0, endOffset - startOffset) of a record when it is flagged used
UsedLength(r) ==
    IF r.used /\ r.endOffset > r.startOffset THEN r.endOffset - r.startOffset ELSE 0

\* C12: aggregation starts empty and each rule-usage record adds
\* max(0, endOffset - startOffset) to the usedBytes of its stylesheet
\* identifier when it is flagged used and nothing otherwise, each identifier
\* being held once; a stylesheet whose text fetch fails appends nothing;
\* otherwise it appends its resolved URL if and only if a URL was resolved
\* and 1 - usedBytes/realTotal >= 0.7, realTotal being the byte length of the
\* fetched text and the fraction being 0 when realTotal is 0 (realTotal 500,
\* usedBytes 480: not appended).
C12_SheetClassification ==
    [][ /\ (dpc # "agg" /\ dpc' = "agg") => css_map' = <<>>
        /\ RuleStep =>
              /\ \A sid \in SheetIds :
                    UsedBytes(css_map', sid) =
                        UsedBytes(css_map, sid)
                        + (IF sid = ru'.styleSheetId THEN UsedLength(ru') ELSE 0)
              /\ Cardinality({k \in 1..Len(css_map') : css_map'[k].sid = ru'.styleSheetId}) = 1
        /\ (dpc = "agg" /\ sheet_i' = sheet_i + 1) =>
              LET usedBytes == UsedBytes(css_map, css_map[sheet_i'].sid)
                  realTotal == Utf8Len(sheet'.text)
                  unusedEnough ==
                      IF realTotal = 0 THEN FALSE
                      ELSE ThresholdDen * (realTotal - usedBytes) >= ThresholdNum * realTotal
              IN  /\ IF ~sheet'.raises /\ url_guess' # None /\ unusedEnough
                     THEN dead' = Append(dead, url_guess')
                     ELSE dead' = dead
                  /\ ~SheetUnusedEnough(480, 500) ]_vars

\* a stylesheet with used and unused ranges, whose range total differs from
\* the byte length of its text, sits exactly at the threshold (usedBytes is
\* 3/10 of realTotal) and its resolved URL has just been appended
C12_Witness ==
    /\ call = "stop" /\ dpc = "agg" /\ sheet_i > 0 /\ ~sheet.raises
    /\ css_map[sheet_i].used_ranges > 0
    /\ css_map[sheet_i].total_ranges > css_map[sheet_i].used_ranges
    /\ css_map[sheet_i].total_ranges # Utf8Len(sheet.text)
    /\ 10 * css_map[sheet_i].used_ranges = 3 * Utf8Len(sheet.text)
    /\ url_guess # None
    /\ dead # <<>> /\ dead[Len(dead)] = url_guess

\* positions of a call in the history of the run
At(name) == {i \in 1..Len(steps) : steps[i] = name}

\* the callback is registered, and the coverage session if there is one is
\* started, before navigation starts; no session is started afterwards
StartsBeforeNavigation ==
    \A g \in At("page.goto") :
        /\ \E i \in At("page.on") : i < g
        /\ cdp_ok => \E i \in At("_start_cdp_coverage") : i < g
        /\ \A i \in At("_start_cdp_coverage") : i < g

\* coverage is stopped and the DOM is read only after navigation has
\* completed and the quiescence delay has elapsed
ReadsAfterQuiescence ==
    \A r \in At("_stop_and_get_dead_files") \cup At("page.query_selector_all") :
        \E n \in At("page.wait_for_timeout"), w \in At("waited") : n < w /\ w < r

StartedStoppedOnce ==
    /\ Cardinality(At("_start_cdp_coverage")) <= 1
    /\ Cardinality(At("_stop_and_get_dead_files")) <= 1

\* the coverage stop has matched a stylesheet against network_events
StopHasRead == rpc = "stopping" /\ dpc = "agg" /\ sheet_i > 0 /\ ~sheet.raises

\* every response handed to the callback is in network_events, once
CaptureComplete == in_flight = <<>> /\ Len(network_events) = delivered

\* C13 (as stated): the callback is registered and the coverage session
\* started before navigation starts; coverage is stopped and coverage or DOM
\* state read only after navigation completed and the 1000 ms delay elapsed;
\* the session is started at most once and stopped at most once; and every
\* response delivered to the callback during navigation and the quiescence
\* window is in the network-event list, exactly once, when the coverage stop
\* reads the list.
C13_OrderedCapture ==
    /\ StartsBeforeNavigation
    /\ ReadsAfterQuiescence
    /\ StartedStoppedOnce
    /\ StopHasRead => CaptureComplete

====
